---- MODULE Spec2Model ----
(***************************************************************************)
(* ClustersService.create (src/verda/clusters/_clusters.py): one creation  *)
(* request followed by an optional status-convergence wait with bounded    *)
(* exponential backoff and a deadline.                                     *)
(*                                                                         *)
(* Time is the value of time.monotonic() in whole ticks.  Only the HTTP    *)
(* calls (post, get_by_id) and time.sleep let the clock advance; the       *)
(* statements between them are instantaneous and time.sleep(d) lasts       *)
(* exactly d.                                                              *)
(*                                                                         *)
(* ClustersService.action and ClustersService.delete are a second          *)
(* specification, SpecAction, over their own variables.                    *)
(***************************************************************************)
EXTENDS Integers, Sequences, FiniteSets, TLC

\* ---------------------------------------------------------------- bounds
MaxWait == 3          \* max_wait_time ranges over 0..MaxWait in the small policies
LongWait == 40        \* max_wait_time of the long-running policy
MaxLatency == 1       \* an HTTP call lasts 0..MaxLatency ticks
MaxIdList == 2        \* action() is given lists of 0..MaxIdList identifiers

\* ------------------------------------------------------------- constants
None == "None"

\* verda.constants.ClusterStatus, as used by create
ORDERED == "ordered"
PROVISIONING == "provisioning"
RUNNING == "running"
ERROR == "error"
DISCONTINUED == "discontinued"

\* verda.constants.Actions.DELETE, the one token action() accepts
DELETE == "delete"

\* CLUSTERS_ENDPOINT
CLUSTERS_ENDPOINT == "/clusters"

\* verda.constants.ErrorCodes
SERVER_ERROR == "server_error"
INVALID_REQUEST == "invalid_request"

\* 2.0 ** 1024 is the first power of two a Python float cannot hold
FloatMaxExp == 1024

\* status strings the server may report; "resizing" is one create() never names
Statuses == {ORDERED, PROVISIONING, RUNNING, ERROR, DISCONTINUED, "resizing"}

\* identifiers the creation request may return
Ids == {"c1", "c2"}

\* values of the wait_for_status argument
WaitTargets == {None, "", PROVISIONING, RUNNING, ERROR}

\* the default arguments of create (max_wait_time scaled down)
DefaultPolicy == [wait_for_status |-> PROVISIONING, max_wait_time |-> MaxWait,
                  initial_interval |-> 1, max_interval |-> 10,
                  backoff_coefficient |-> 2, float_args |-> TRUE]

\* the policy of the end-to-end scenarios
ScenarioPolicy == [wait_for_status |-> RUNNING, max_wait_time |-> 30,
                   initial_interval |-> 1, max_interval |-> 10,
                   backoff_coefficient |-> 2, float_args |-> FALSE]

\* a long wait polling every tick with a steep float coefficient (2.0 ** 30)
LongPolicy == [wait_for_status |-> PROVISIONING, max_wait_time |-> LongWait,
               initial_interval |-> 1, max_interval |-> 1,
               backoff_coefficient |-> 1073741824, float_args |-> TRUE]

SmallPolicies ==
    { p \in [wait_for_status : WaitTargets, max_wait_time : 0..MaxWait,
             initial_interval : {1, 2}, max_interval : {1, 2},
             backoff_coefficient : {1, 2}, float_args : BOOLEAN] :
        p.initial_interval <= p.max_interval }

Policies == SmallPolicies \cup {DefaultPolicy, ScenarioPolicy, LongPolicy}

\* ----------------------------------------------------------------- state
VARIABLES
    cfg,        \* the keyword arguments of this create call
    pc,         \* position in create: start, get_once, poll, sleep, done
    clock,      \* time.monotonic()
    id,         \* response['id']
    deadline,   \* local deadline
    i,          \* loop counter of itertools.count()
    now,        \* local now (line 210)
    cluster,    \* local cluster: the last fetched snapshot
    outcome,    \* running, returned, raised
    result,     \* the returned snapshot
    exc,        \* the raised exception
    posts,      \* number of creation requests sent
    fetches,    \* number of get_by_id calls made
    fetchIds,   \* identifiers get_by_id was called with
    slept,      \* durations passed to time.sleep, in order
    geos,       \* min(initial*coef**i, max_interval) of each sleep, in order
    remaining,  \* deadline - now at the last sleep
    waitStart,  \* clock when the deadline was computed
    lastLat,    \* duration of the last get_by_id call
    sawStarted, \* some fetch begun before the deadline showed provisioning/running
    priorOrdered, \* every fetch before the last one showed ordered
    aop,        \* the method called: action, delete, or idle (create is running)
    apc,        \* position in it: idle, call, check, put, done
    action,     \* parameter action of action(), reassigned at line 233
    argAction,  \* the action token the caller passed
    id_list,    \* parameter id_list: a single identifier (str) or a list
    payload,    \* local payload
    http,       \* requests sent through self._http_client, in order
    aOutcome,   \* running, returned, raised
    aResult,    \* the value returned
    aExc,       \* the exception raised
    cmd,        \* the CLI command invoked, or idle (no command is running)
    cpc,        \* position in it: idle, confirm, client, delete, success,
                \* func, handler, done
    force,      \* option --force
    nIds,       \* number of identifiers given on the command line
    permanent,  \* option --permanent of volumes delete
    confirm,    \* local confirm: unasked, yes, no
    clientBuilt, \* get_client() returned a VerdaClient
    requests,   \* service calls made by the command, in order
    printed,    \* messages written to the console, in order
    raisedIn,   \* the exception raised inside the wrapped function
    funcResult, \* the value the wrapped function returned
    wOutcome,   \* of wrapper: running, returned, exit, propagated
    wResult,    \* the value wrapper returned
    wExit,      \* code of the typer.Exit wrapper raised, -1 if none
    wExc,       \* the exception that left wrapper uncaught
    seen,       \* how the error kinds raised so far ended their commands
    gclock,     \* time.monotonic() as read by the concurrent create calls
    ws,         \* the locals of each concurrent create call
    wlog        \* what each concurrent create call was given: results and clock readings

createVars == <<cfg, pc, clock, id, deadline, i, now, cluster, outcome, result,
                exc, posts, fetches, fetchIds, slept, geos, remaining, waitStart,
                lastLat, sawStarted, priorOrdered>>

actionVars == <<aop, apc, action, argAction, id_list, payload, http, aOutcome,
                aResult, aExc>>

cliVars == <<cmd, cpc, force, nIds, permanent, confirm, clientBuilt, requests,
             printed, raisedIn, funcResult, wOutcome, wResult, wExit, wExc, seen>>

pairVars == <<gclock, ws, wlog>>

vars == <<createVars, actionVars, cliVars, pairVars>>

\* --------------------------------------------------------------- helpers
Min(a, b) == IF a <= b THEN a ELSE b

\* variant: the test inverted (`if wait_for_status:`)
FalsyInverted(w) == ~(w = None \/ w = "")

\* variant: the no-wait branch is never taken
FalsyNever(w) == FALSE

\* `not wait_for_status`
Falsy(w) == w = None \/ w = ""

\* variant: the wait budget is not added to the start time
DeadlineNoBudget(t, maxWait) == t

\* deadline = time.monotonic() + max_wait_time
Deadline(t, maxWait) == t + maxWait

\* variant: the target is the constant PROVISIONING, not the argument
ClassifyHardcodedTarget(status, target) ==
    IF status = PROVISIONING THEN "reached"
    ELSE IF status = ERROR THEN "error"
    ELSE IF status = DISCONTINUED THEN "discontinued"
    ELSE "converging"

\* variant: the discontinued test is missing
ClassifyNoDiscontinued(status, target) ==
    IF status = target THEN "reached"
    ELSE IF status = ERROR THEN "error"
    ELSE "converging"

\* variant: any status other than the placeholder ends the wait
ClassifyNotPlaceholder(status, target) ==
    IF status = target \/ status \notin {ORDERED, ERROR, DISCONTINUED} THEN "reached"
    ELSE IF status = ERROR THEN "error"
    ELSE IF status = DISCONTINUED THEN "discontinued"
    ELSE "converging"

\* the if-chain on cluster.status
Classify(status, target) ==
    IF status = target THEN "reached"
    ELSE IF status = ERROR THEN "error"
    ELSE IF status = DISCONTINUED THEN "discontinued"
    ELSE "converging"

\* variant: now > deadline
TimedOutStrict(t, dl) == t > dl

\* now >= deadline
TimedOut(t, dl) == t >= dl

\* min(b ** e, cap) for b >= 1, cap >= 1, without leaving the integers TLC has
RECURSIVE SatPow(_, _, _)
SatPow(b, e, cap) ==
    IF e = 0 THEN Min(1, cap)
    ELSE Min(SatPow(b, e - 1, cap) * Min(b, cap), cap)

\* variant: the initial interval is divided by the power, not multiplied
GeoIntervalShrinking(initial, coef, k, maxInt) ==
    Min(initial \div SatPow(coef, k, maxInt), maxInt)

\* variant: the exponent is one too large
GeoIntervalOffByOne(initial, coef, k, maxInt) ==
    Min(initial * SatPow(coef, k + 1, maxInt), maxInt)

\* min(initial_interval * backoff_coefficient**i, max_interval); for
\* initial >= 1 this equals min(initial * min(coef**i, max), max)
GeoInterval(initial, coef, k, maxInt) ==
    Min(initial * SatPow(coef, k, maxInt), maxInt)

\* variant: the remaining time is not part of the min
IntervalNoClamp(initial, coef, k, maxInt, left) ==
    GeoInterval(initial, coef, k, maxInt)

\* interval = min(initial*coef**i, max_interval, deadline - now)
Interval(initial, coef, k, maxInt, left) ==
    Min(GeoInterval(initial, coef, k, maxInt), left)

\* floor(log2(n)); exact for the powers of two used as coefficients
RECURSIVE Log2(_)
Log2(n) == IF n <= 1 THEN 0 ELSE 1 + Log2(n \div 2)

\* backoff_coefficient**i (or its conversion to float) raises OverflowError:
\* a float operand and coef**i >= 2**1024.  Integer operands never overflow.
PowOverflows(coef, k, floatArgs) ==
    floatArgs /\ coef > 1 /\ k * Log2(coef) >= FloatMaxExp

Snapshot(cid, status) == [id |-> cid, status |-> status]

\* no snapshot fetched or returned yet
NoCluster == [id |-> None, status |-> None]

NoExc == [type |-> None, code |-> None, ref |-> None, text |-> None, wait |-> 0]

\* the error the HTTP client raises on a non-2xx response
TransportError == [type |-> "APIException", code |-> INVALID_REQUEST,
                   ref |-> None, text |-> "request failed", wait |-> 0]

\* variant: the terminal failure is raised as a TimeoutError
TerminalErrorAsTimeout(cid, class) ==
    [type |-> "TimeoutError", code |-> SERVER_ERROR, ref |-> cid,
     text |-> IF class = "error" THEN "entered error state" ELSE "was discontinued",
     wait |-> 0]

TerminalError(cid, class) ==
    [type |-> "APIException", code |-> SERVER_ERROR, ref |-> cid,
     text |-> IF class = "error" THEN "entered error state" ELSE "was discontinued",
     wait |-> 0]

TimeoutErr(cid, maxWait) ==
    [type |-> "TimeoutError", code |-> None, ref |-> cid,
     text |-> "did not enter creating state", wait |-> maxWait]

OverflowErr == [type |-> "OverflowError", code |-> None, ref |-> None,
                text |-> "Numerical result out of range", wait |-> 0]

\* raise ValueError(f'Invalid action: {action}. Only DELETE is supported.')
ValueErr(token) == [type |-> "ValueError", code |-> None, ref |-> token,
                    text |-> "Invalid action. Only DELETE is supported.", wait |-> 0]

\* a builtin ConnectionError
ConnectionErr == [type |-> "ConnectionError", code |-> None, ref |-> None,
                  text |-> "connection failed", wait |-> 0]

\* typer.Abort()
AbortExc == [type |-> "Abort", code |-> None, ref |-> None, text |-> None,
             wait |-> 0]

\* typer.Exit(code=n); the numeric field holds the exit code
ExitExc(n) == [type |-> "Exit", code |-> None, ref |-> None, text |-> None,
               wait |-> n]

\* action tokens a caller may pass to action()
ActionTokens == {DELETE, "discontinue", "DELETE", "boot", ""}

\* an id_list argument: one identifier given as a str, or a list of them
StrArg(cid) == [str |-> TRUE, ids |-> <<cid>>]
ListArg(ids) == [str |-> FALSE, ids |-> ids]
NoArg == ListArg(<<>>)

IdLists == {StrArg(cid) : cid \in Ids} \cup
           UNION {{ListArg(ids) : ids \in [1..n -> Ids]} : n \in 0..MaxIdList}

\* variant: the internal token discontinue passes the validation too
InvalidActionLoose(token) == token \notin {DELETE, "discontinue"}

\* action != Actions.DELETE
InvalidAction(token) == token # DELETE

\* the payload for a str and for a list of identifiers
Payload(idl, token) ==
    IF idl.str THEN <<[id |-> idl.ids[1], action |-> token]>>
    ELSE [k \in 1..Len(idl.ids) |-> [id |-> idl.ids[k], action |-> token]]

\* self._http_client.put(CLUSTERS_ENDPOINT, json=payload)
PutRequest(json) == [method |-> "PUT", path |-> CLUSTERS_ENDPOINT, json |-> json]

\* neither action() nor delete() is being called
ActionIdle ==
    /\ aop = "idle"
    /\ apc = "idle"
    /\ action = None
    /\ argAction = None
    /\ id_list = NoArg
    /\ payload = <<>>
    /\ http = <<>>
    /\ aOutcome = "running"
    /\ aResult = "unset"
    /\ aExc = NoExc

\* the threads calling create concurrently
Waiters == {1, 2}

\* the identifier the API assigns to the cluster of each call
PairId(w) == IF w = 1 THEN "c1" ELSE "c2"

\* statuses the concurrent calls are shown
PairStatuses == {ORDERED, RUNNING, ERROR}

\* arguments of the concurrent calls: a wait for running, a call without a wait
PairPolicies ==
    { p \in SmallPolicies :
        /\ p.initial_interval = 1 /\ p.max_interval = 2
        /\ p.backoff_coefficient = 2 /\ p.float_args
        /\ p.max_wait_time = MaxWait - 1
        /\ p.wait_for_status \in {RUNNING, None} }

\* the locals of a create call with arguments p before its first statement
WStart(p) ==
    [cfg |-> p, pc |-> "start", id |-> None, deadline |-> 0, i |-> 0, now |-> 0,
     cluster |-> NoCluster, outcome |-> "running", result |-> NoCluster,
     exc |-> NoExc, fetches |-> 0, slept |-> <<>>, wake |-> 0]

\* no create call is made by this thread
WIdle == [WStart(DefaultPolicy) EXCEPT !.pc = "idle"]

\* something given to a create call: the result of a request or a clock reading
Event(op, ok, cid, status, t) ==
    [op |-> op, ok |-> ok, id |-> cid, status |-> status, t |-> t]

\* the creation request, `if not wait_for_status`, the deadline
WPost(s, ev) ==
    IF ~ev.ok
      THEN [s EXCEPT !.outcome = "raised", !.exc = TransportError, !.pc = "done"]
      ELSE IF Falsy(s.cfg.wait_for_status)
        THEN [s EXCEPT !.id = ev.id, !.pc = "get_once"]
        ELSE [s EXCEPT !.id = ev.id, !.pc = "poll",
                       !.deadline = Deadline(ev.t, s.cfg.max_wait_time)]

\* return self.get_by_id(id)
WGetOnce(s, ev) ==
    IF ~ev.ok
      THEN [s EXCEPT !.fetches = @ + 1, !.outcome = "raised",
                     !.exc = TransportError, !.pc = "done"]
      ELSE [s EXCEPT !.fetches = @ + 1, !.cluster = Snapshot(s.id, ev.status),
                     !.result = Snapshot(s.id, ev.status),
                     !.outcome = "returned", !.pc = "done"]

\* one pass of the loop body up to the deadline check
WPoll(s, ev) ==
    IF ~ev.ok
      THEN [s EXCEPT !.fetches = @ + 1, !.outcome = "raised",
                     !.exc = TransportError, !.pc = "done"]
      ELSE LET class == Classify(ev.status, s.cfg.wait_for_status)
               f == [s EXCEPT !.fetches = @ + 1,
                              !.cluster = Snapshot(s.id, ev.status)]
           IN CASE class = "reached" ->
                     [f EXCEPT !.result = Snapshot(s.id, ev.status),
                               !.outcome = "returned", !.pc = "done"]
                [] class \in {"error", "discontinued"} ->
                     [f EXCEPT !.outcome = "raised",
                               !.exc = TerminalError(s.id, class), !.pc = "done"]
                [] OTHER ->
                     IF TimedOut(ev.t, s.deadline)
                       THEN [f EXCEPT !.now = ev.t, !.outcome = "raised",
                                      !.exc = TimeoutErr(s.id, s.cfg.max_wait_time),
                                      !.pc = "done"]
                       ELSE [f EXCEPT !.now = ev.t, !.pc = "sleep"]

\* interval = min(...); time.sleep(interval) begins
WSleep(s, ev) ==
    IF PowOverflows(s.cfg.backoff_coefficient, s.i, s.cfg.float_args)
      THEN [s EXCEPT !.outcome = "raised", !.exc = OverflowErr, !.pc = "done"]
      ELSE LET interval == Interval(s.cfg.initial_interval,
                                    s.cfg.backoff_coefficient, s.i,
                                    s.cfg.max_interval, s.deadline - s.now)
           IN [s EXCEPT !.slept = Append(@, interval), !.wake = ev.t + interval,
                        !.pc = "sleeping"]

\* time.sleep returns; next i
WWake(s, ev) == [s EXCEPT !.i = @ + 1, !.pc = "poll"]

\* the statement of create that consumes the event
WStep(s, ev) ==
    CASE ev.op = "post" -> WPost(s, ev)
      [] ev.op = "get_once" -> WGetOnce(s, ev)
      [] ev.op = "poll" -> WPoll(s, ev)
      [] ev.op = "sleep" -> WSleep(s, ev)
      [] OTHER -> WWake(s, ev)

\* a create call with arguments p run alone and given the events of log
RECURSIVE RunAlone(_, _)
RunAlone(p, log) ==
    IF log = <<>> THEN WStart(p)
    ELSE WStep(RunAlone(p, SubSeq(log, 1, Len(log) - 1)), log[Len(log)])

\* no concurrent create calls are made
PairIdle ==
    /\ gclock = 0
    /\ ws = [w \in Waiters |-> WIdle]
    /\ wlog = [w \in Waiters |-> <<>>]

\* no CLI command is running
CliIdle ==
    /\ cmd = "idle"
    /\ cpc = "idle"
    /\ force = FALSE
    /\ nIds = 1
    /\ permanent = FALSE
    /\ confirm = "unasked"
    /\ clientBuilt = FALSE
    /\ requests = <<>>
    /\ printed = <<>>
    /\ raisedIn = NoExc
    /\ funcResult = "unset"
    /\ wOutcome = "running"
    /\ wResult = "unset"
    /\ wExit = -1
    /\ wExc = NoExc
    /\ seen = {}

\* create is not being called
CreateIdle ==
    /\ cfg = DefaultPolicy
    /\ pc = "idle"
    /\ clock = 0
    /\ id = None
    /\ deadline = 0
    /\ i = 0
    /\ now = 0
    /\ cluster = NoCluster
    /\ outcome = "running"
    /\ result = NoCluster
    /\ exc = NoExc
    /\ posts = 0
    /\ fetches = 0
    /\ fetchIds = {}
    /\ slept = <<>>
    /\ geos = <<>>
    /\ remaining = 0
    /\ waitStart = 0
    /\ lastLat = 0
    /\ sawStarted = FALSE
    /\ priorOrdered = TRUE

\* ------------------------------------------------------------------ Init
Init ==
    /\ cfg \in Policies
    /\ pc = "start"
    /\ clock = 0
    /\ id = None
    /\ deadline = 0
    /\ i = 0
    /\ now = 0
    /\ cluster = NoCluster
    /\ outcome = "running"
    /\ result = NoCluster
    /\ exc = NoExc
    /\ posts = 0
    /\ fetches = 0
    /\ fetchIds = {}
    /\ slept = <<>>
    /\ geos = <<>>
    /\ remaining = 0
    /\ waitStart = 0
    /\ lastLat = 0
    /\ sawStarted = FALSE
    /\ priorOrdered = TRUE
    /\ ActionIdle
    /\ CliIdle
    /\ PairIdle

\* --------------------------------------------------------------- actions
\* variant: a failed creation request is sent again
PostFailsRetries ==
    /\ pc = "start"
    /\ posts < 3
    /\ \E lat \in 0..MaxLatency : clock' = clock + lat
    /\ posts' = posts + 1
    /\ exc' = TransportError
    /\ pc' = "start"
    /\ UNCHANGED <<cfg, id, deadline, i, now, cluster, outcome, result, fetches,
                   fetchIds, slept, geos, remaining, waitStart, lastLat, sawStarted, priorOrdered>>
    /\ UNCHANGED <<actionVars, cliVars, pairVars>>

\* the creation request fails: the HTTP client raises, create propagates
PostFails ==
    /\ pc = "start"
    /\ \E lat \in 0..MaxLatency : clock' = clock + lat
    /\ posts' = posts + 1
    /\ outcome' = "raised"
    /\ exc' = TransportError
    /\ pc' = "done"
    /\ UNCHANGED <<cfg, id, deadline, i, now, cluster, result, fetches,
                   fetchIds, slept, geos, remaining, waitStart, lastLat, sawStarted, priorOrdered>>
    /\ UNCHANGED <<actionVars, cliVars, pairVars>>

\* the creation request succeeds; then `if not wait_for_status`, else the
\* deadline is fixed and the loop is entered with i = 0
PostOk ==
    /\ pc = "start"
    /\ \E lat \in 0..MaxLatency, newId \in Ids :
        /\ clock' = clock + lat
        /\ id' = newId
        /\ IF Falsy(cfg.wait_for_status)
             THEN /\ pc' = "get_once"
                  /\ UNCHANGED <<deadline, waitStart>>
             ELSE /\ pc' = "poll"
                  /\ deadline' = Deadline(clock', cfg.max_wait_time)
                  /\ waitStart' = clock'
    /\ posts' = posts + 1
    /\ i' = 0
    /\ UNCHANGED <<cfg, now, cluster, outcome, result, exc, fetches, fetchIds,
                   slept, geos, remaining, lastLat, sawStarted, priorOrdered>>
    /\ UNCHANGED <<actionVars, cliVars, pairVars>>

\* variant: the fetch is made with an identifier other than the assigned one
GetOnceOtherId ==
    /\ pc = "get_once"
    /\ \E lat \in 0..MaxLatency, ok \in BOOLEAN, s \in Statuses :
        /\ clock' = clock + lat
        /\ lastLat' = lat
        /\ IF ok
             THEN /\ cluster' = Snapshot(id, s)
                  /\ result' = Snapshot(id, s)
                  /\ outcome' = "returned"
                  /\ exc' = exc
             ELSE /\ outcome' = "raised"
                  /\ exc' = TransportError
                  /\ UNCHANGED <<cluster, result>>
    /\ fetches' = fetches + 1
    /\ fetchIds' = fetchIds \cup {CHOOSE other \in Ids : other # id}
    /\ pc' = "done"
    /\ UNCHANGED <<cfg, id, deadline, i, now, posts, slept, geos, remaining,
                   waitStart, sawStarted, priorOrdered>>
    /\ UNCHANGED <<actionVars, cliVars, pairVars>>

\* return self.get_by_id(id)
GetOnce ==
    /\ pc = "get_once"
    /\ \E lat \in 0..MaxLatency, ok \in BOOLEAN, s \in Statuses :
        /\ clock' = clock + lat
        /\ lastLat' = lat
        /\ IF ok
             THEN /\ cluster' = Snapshot(id, s)
                  /\ result' = Snapshot(id, s)
                  /\ outcome' = "returned"
                  /\ exc' = exc
             ELSE /\ outcome' = "raised"
                  /\ exc' = TransportError
                  /\ UNCHANGED <<cluster, result>>
    /\ fetches' = fetches + 1
    /\ fetchIds' = fetchIds \cup {id}
    /\ pc' = "done"
    /\ UNCHANGED <<cfg, id, deadline, i, now, posts, slept, geos, remaining,
                   waitStart, sawStarted, priorOrdered>>
    /\ UNCHANGED <<actionVars, cliVars, pairVars>>

\* variant: the deadline is tested before the status of the fetched snapshot
PollDeadlineFirst ==
    /\ pc = "poll"
    /\ \E lat \in 0..MaxLatency, ok \in BOOLEAN, s \in Statuses :
        /\ clock' = clock + lat
        /\ lastLat' = lat
        /\ IF ~ok
             THEN /\ outcome' = "raised"
                  /\ exc' = TransportError
                  /\ pc' = "done"
                  /\ UNCHANGED <<cluster, result, now, sawStarted>>
             ELSE /\ cluster' = Snapshot(id, s)
                  /\ sawStarted' = (sawStarted \/
                        (s \in {PROVISIONING, RUNNING} /\ clock < deadline))
                  /\ now' = clock'
                  /\ LET class == Classify(s, cfg.wait_for_status) IN
                     CASE TimedOut(now', deadline) ->
                            /\ outcome' = "raised"
                            /\ exc' = TimeoutErr(id, cfg.max_wait_time)
                            /\ pc' = "done"
                            /\ UNCHANGED result
                       [] ~TimedOut(now', deadline) /\ class = "reached" ->
                            /\ result' = Snapshot(id, s)
                            /\ outcome' = "returned"
                            /\ pc' = "done"
                            /\ UNCHANGED exc
                       [] ~TimedOut(now', deadline)
                            /\ class \in {"error", "discontinued"} ->
                            /\ outcome' = "raised"
                            /\ exc' = TerminalError(id, class)
                            /\ pc' = "done"
                            /\ UNCHANGED result
                       [] OTHER ->
                            /\ pc' = "sleep"
                            /\ UNCHANGED <<outcome, exc, result>>
    /\ fetches' = fetches + 1
    /\ fetchIds' = fetchIds \cup {id}
    /\ priorOrdered' = (priorOrdered /\ (fetches = 0 \/ cluster.status = ORDERED))
    /\ UNCHANGED <<cfg, id, deadline, i, posts, slept, geos, remaining, waitStart>>
    /\ UNCHANGED <<actionVars, cliVars, pairVars>>

\* variant: the loop is not left when the deadline has passed
PollKeepsGoing ==
    /\ pc = "poll"
    /\ \E lat \in 0..MaxLatency, ok \in BOOLEAN, s \in Statuses :
        /\ clock' = clock + lat
        /\ lastLat' = lat
        /\ IF ~ok
             THEN /\ outcome' = "raised"
                  /\ exc' = TransportError
                  /\ pc' = "done"
                  /\ UNCHANGED <<cluster, result, now, sawStarted>>
             ELSE /\ cluster' = Snapshot(id, s)
                  /\ sawStarted' = (sawStarted \/
                        (s \in {PROVISIONING, RUNNING} /\ clock < deadline))
                  /\ LET class == Classify(s, cfg.wait_for_status) IN
                     CASE class = "reached" ->
                            /\ result' = Snapshot(id, s)
                            /\ outcome' = "returned"
                            /\ pc' = "done"
                            /\ UNCHANGED <<exc, now>>
                       [] class \in {"error", "discontinued"} ->
                            /\ outcome' = "raised"
                            /\ exc' = TerminalError(id, class)
                            /\ pc' = "done"
                            /\ UNCHANGED <<result, now>>
                       [] OTHER ->
                            /\ now' = clock'
                            /\ IF TimedOut(now', deadline)
                                 THEN /\ outcome' = "raised"
                                      /\ exc' = TimeoutErr(id, cfg.max_wait_time)
                                      /\ pc' = "poll"
                                 ELSE /\ pc' = "sleep"
                                      /\ UNCHANGED <<outcome, exc>>
                            /\ UNCHANGED result
    /\ fetches' = fetches + 1
    /\ fetchIds' = fetchIds \cup {id}
    /\ priorOrdered' = (priorOrdered /\ (fetches = 0 \/ cluster.status = ORDERED))
    /\ UNCHANGED <<cfg, id, deadline, i, posts, slept, geos, remaining, waitStart>>
    /\ UNCHANGED <<actionVars, cliVars, pairVars>>

\* one pass of the loop body up to the deadline check: get_by_id, the
\* if-chain on the status, now = time.monotonic(), now >= deadline
Poll ==
    /\ pc = "poll"
    /\ \E lat \in 0..MaxLatency, ok \in BOOLEAN, s \in Statuses :
        /\ clock' = clock + lat
        /\ lastLat' = lat
        /\ IF ~ok
             THEN /\ outcome' = "raised"
                  /\ exc' = TransportError
                  /\ pc' = "done"
                  /\ UNCHANGED <<cluster, result, now, sawStarted>>
             ELSE /\ cluster' = Snapshot(id, s)
                  /\ sawStarted' = (sawStarted \/
                        (s \in {PROVISIONING, RUNNING} /\ clock < deadline))
                  /\ LET class == Classify(s, cfg.wait_for_status) IN
                     CASE class = "reached" ->
                            /\ result' = Snapshot(id, s)
                            /\ outcome' = "returned"
                            /\ pc' = "done"
                            /\ UNCHANGED <<exc, now>>
                       [] class \in {"error", "discontinued"} ->
                            /\ outcome' = "raised"
                            /\ exc' = TerminalError(id, class)
                            /\ pc' = "done"
                            /\ UNCHANGED <<result, now>>
                       [] OTHER ->
                            /\ now' = clock'
                            /\ IF TimedOut(now', deadline)
                                 THEN /\ outcome' = "raised"
                                      /\ exc' = TimeoutErr(id, cfg.max_wait_time)
                                      /\ pc' = "done"
                                 ELSE /\ pc' = "sleep"
                                      /\ UNCHANGED <<outcome, exc>>
                            /\ UNCHANGED result
    /\ fetches' = fetches + 1
    /\ fetchIds' = fetchIds \cup {id}
    /\ priorOrdered' = (priorOrdered /\ (fetches = 0 \/ cluster.status = ORDERED))
    /\ UNCHANGED <<cfg, id, deadline, i, posts, slept, geos, remaining, waitStart>>
    /\ UNCHANGED <<actionVars, cliVars, pairVars>>

\* interval = min(...); time.sleep(interval); next i
Sleep ==
    /\ pc = "sleep"
    /\ IF PowOverflows(cfg.backoff_coefficient, i, cfg.float_args)
         THEN /\ outcome' = "raised"
              /\ exc' = OverflowErr
              /\ pc' = "done"
              /\ UNCHANGED <<clock, i, slept, geos, remaining>>
         ELSE LET interval == Interval(cfg.initial_interval, cfg.backoff_coefficient,
                                       i, cfg.max_interval, deadline - now)
              IN /\ clock' = clock + interval
                 /\ slept' = Append(slept, interval)
                 /\ geos' = Append(geos, GeoInterval(cfg.initial_interval,
                                  cfg.backoff_coefficient, i, cfg.max_interval))
                 /\ remaining' = deadline - now
                 /\ i' = i + 1
                 /\ pc' = "poll"
                 /\ UNCHANGED <<outcome, exc>>
    /\ UNCHANGED <<cfg, id, deadline, now, cluster, result, posts, fetches,
                   fetchIds, waitStart, lastLat, sawStarted, priorOrdered>>
    /\ UNCHANGED <<actionVars, cliVars, pairVars>>

Next == PostFails \/ PostOk \/ GetOnce \/ Poll \/ Sleep

Spec == Init /\ [][Next]_vars

\* ------------------------------------------------- action() and delete()
\* a call of action(id_list, action) or of delete(cluster_id)
InitAction ==
    /\ CreateIdle
    /\ CliIdle
    /\ PairIdle
    /\ payload = <<>>
    /\ http = <<>>
    /\ aOutcome = "running"
    /\ aResult = "unset"
    /\ aExc = NoExc
    /\ \/ /\ aop = "action"
          /\ apc = "check"
          /\ action \in ActionTokens
          /\ argAction = action
          /\ id_list \in IdLists
       \/ /\ aop = "delete"
          /\ apc = "call"
          /\ action = None
          /\ argAction = None
          /\ id_list \in {StrArg(cid) : cid \in Ids \cup {"invalid_id"}}

\* variant: delete passes the token the API uses
DeleteCallInternalToken ==
    /\ aop = "delete"
    /\ apc = "call"
    /\ action' = "discontinue"
    /\ argAction' = "discontinue"
    /\ apc' = "check"
    /\ UNCHANGED <<aop, id_list, payload, http, aOutcome, aResult, aExc>>
    /\ UNCHANGED <<createVars, cliVars, pairVars>>

\* delete: self.action(cluster_id, 'delete')
DeleteCall ==
    /\ aop = "delete"
    /\ apc = "call"
    /\ action' = "delete"
    /\ argAction' = "delete"
    /\ apc' = "check"
    /\ UNCHANGED <<aop, id_list, payload, http, aOutcome, aResult, aExc>>
    /\ UNCHANGED <<createVars, cliVars, pairVars>>

\* action: the token is not Actions.DELETE, ValueError is raised
ActionRejects ==
    /\ apc = "check"
    /\ InvalidAction(action)
    /\ aOutcome' = "raised"
    /\ aExc' = ValueErr(action)
    /\ apc' = "done"
    /\ UNCHANGED <<aop, action, argAction, id_list, payload, http, aResult>>
    /\ UNCHANGED <<createVars, cliVars, pairVars>>

\* action: the token is accepted, renamed to discontinue, the payload built
ActionBuilds ==
    /\ apc = "check"
    /\ ~InvalidAction(action)
    /\ action' = "discontinue"
    /\ payload' = Payload(id_list, action')
    /\ apc' = "put"
    /\ UNCHANGED <<aop, argAction, id_list, http, aOutcome, aResult, aExc>>
    /\ UNCHANGED <<createVars, cliVars, pairVars>>

\* action: the PUT succeeds; action, and delete after it, return None
PutOk ==
    /\ apc = "put"
    /\ http' = Append(http, PutRequest(payload))
    /\ aOutcome' = "returned"
    /\ aResult' = None
    /\ apc' = "done"
    /\ UNCHANGED <<aop, action, argAction, id_list, payload, aExc>>
    /\ UNCHANGED <<createVars, cliVars, pairVars>>

\* action: the PUT fails; the HTTP client raises, action and delete propagate
PutFails ==
    /\ apc = "put"
    /\ http' = Append(http, PutRequest(payload))
    /\ aOutcome' = "raised"
    /\ aExc' = TransportError
    /\ apc' = "done"
    /\ UNCHANGED <<aop, action, argAction, id_list, payload, aResult>>
    /\ UNCHANGED <<createVars, cliVars, pairVars>>

NextAction == DeleteCall \/ ActionRejects \/ ActionBuilds \/ PutOk \/ PutFails

SpecAction == InitAction /\ [][NextAction]_vars

\* ------------------------------------------------------- the CLI commands
\* the commands with a delete subcommand
DeleteCommands == {"clusters", "instances", "volumes", "ssh-keys"}

\* the delete commands, and func: any function wrapped by handle_api_errors
Commands == DeleteCommands \cup {"func"}

\* exceptions a wrapped function may raise
FuncRaisable == {TransportError, TerminalError("c1", "error"),
                 TimeoutErr("c1", 900), ValueErr("boot"), ConnectionErr}

\* exceptions the service call of a delete command may raise
ServiceRaisable == {TransportError, ConnectionErr}

\* values a wrapped function may return
FuncResults == {None, "value"}

\* variant: ValueError is caught as well
CaughtAlsoValueError(e) ==
    e.type \in {"APIException", "TimeoutError", "ConnectionError", "ValueError"}

\* the except clauses of wrapper
Caught(e) == e.type \in {"APIException", "TimeoutError", "ConnectionError"}

\* variant: every caught exception is printed with the API Error prefix
ErrorMessageOnePrefix(e) ==
    [channel |-> "error", prefix |-> "API Error", code |-> e.code, text |-> e.text]

\* the argument of error() in each except clause
ErrorMessage(e) ==
    CASE e.type = "APIException" ->
           [channel |-> "error", prefix |-> "API Error", code |-> e.code,
            text |-> e.text]
      [] e.type = "TimeoutError" ->
           [channel |-> "error", prefix |-> "Timeout", code |-> None,
            text |-> e.text]
      [] OTHER ->
           [channel |-> "error", prefix |-> "Connection error", code |-> None,
            text |-> e.text]

\* the argument of success() in each delete command
SuccessMessage(c) ==
    [channel |-> "success", prefix |-> "Success", code |-> None,
     text |-> CASE c = "clusters" -> "Cluster deletion initiated"
                [] c = "instances" -> "Instance deletion initiated"
                [] c = "volumes" -> "Volume(s) deleted"
                [] OTHER -> "SSH key(s) deleted"]

\* the four typer.echo(..., err=True) lines of get_client
CredentialsHelp ==
    [k \in 1..4 |->
        [channel |-> "stderr", prefix |-> IF k = 1 THEN "Error" ELSE None,
         code |-> None,
         text |-> CASE k = 1 -> "VERDA_CLIENT_ID and VERDA_CLIENT_SECRET are required"
                    [] k = 2 -> "Set them with:"
                    [] k = 3 -> "export VERDA_CLIENT_ID"
                    [] OTHER -> "export VERDA_CLIENT_SECRET"]]

\* the service call each delete command makes
DeleteRequestOf(c, n, perm) ==
    CASE c = "clusters" ->
           [service |-> "clusters", method |-> "delete", n |-> 1, is_permanent |-> FALSE]
      [] c = "instances" ->
           [service |-> "instances", method |-> "action:delete", n |-> 1,
            is_permanent |-> FALSE]
      [] c = "volumes" ->
           [service |-> "volumes", method |-> "delete", n |-> n, is_permanent |-> perm]
      [] OTHER ->
           [service |-> "ssh_keys",
            method |-> IF n = 1 THEN "delete_by_id" ELSE "delete",
            n |-> n, is_permanent |-> FALSE]

\* one invocation of a command from the shell
InitCli ==
    /\ CreateIdle
    /\ ActionIdle
    /\ PairIdle
    /\ cmd \in Commands
    /\ cpc = IF cmd = "func" THEN "func" ELSE "confirm"
    /\ force \in BOOLEAN
    /\ nIds \in IF cmd \in {"volumes", "ssh-keys"} THEN 1..MaxIdList ELSE {1}
    /\ permanent \in IF cmd = "volumes" THEN BOOLEAN ELSE {FALSE}
    /\ confirm = "unasked"
    /\ clientBuilt = FALSE
    /\ requests = <<>>
    /\ printed = <<>>
    /\ raisedIn = NoExc
    /\ funcResult = "unset"
    /\ wOutcome = "running"
    /\ wResult = "unset"
    /\ wExit = -1
    /\ wExc = NoExc
    /\ seen = {}

\* variant: the answer to the confirmation is not looked at
ConfirmIgnoresAnswer ==
    /\ cpc = "confirm"
    /\ IF force
         THEN /\ cpc' = "client"
              /\ UNCHANGED confirm
         ELSE \E answer \in BOOLEAN :
                /\ confirm' = IF answer THEN "yes" ELSE "no"
                /\ cpc' = "client"
    /\ UNCHANGED <<cmd, force, nIds, permanent, clientBuilt, requests, printed,
                   raisedIn, funcResult, wOutcome, wResult, wExit, wExc, seen>>
    /\ UNCHANGED <<createVars, actionVars, pairVars>>

\* if not force: confirm = typer.confirm(...); if not confirm: raise typer.Abort()
Confirm ==
    /\ cpc = "confirm"
    /\ IF force
         THEN /\ cpc' = "client"
              /\ UNCHANGED <<confirm, raisedIn>>
         ELSE \E answer \in BOOLEAN :
                /\ confirm' = IF answer THEN "yes" ELSE "no"
                /\ IF answer
                     THEN /\ cpc' = "client"
                          /\ UNCHANGED raisedIn
                     ELSE /\ raisedIn' = AbortExc
                          /\ cpc' = "handler"
    /\ UNCHANGED <<cmd, force, nIds, permanent, clientBuilt, requests, printed,
                   funcResult, wOutcome, wResult, wExit, wExc, seen>>
    /\ UNCHANGED <<createVars, actionVars, pairVars>>

\* client = get_client(): without credentials it prints help and exits
GetClient ==
    /\ cpc = "client"
    /\ \E credentials \in BOOLEAN :
         IF credentials
           THEN /\ clientBuilt' = TRUE
                /\ cpc' = "delete"
                /\ UNCHANGED <<printed, raisedIn>>
           ELSE /\ printed' = printed \o CredentialsHelp
                /\ raisedIn' = ExitExc(1)
                /\ cpc' = "handler"
                /\ UNCHANGED clientBuilt
    /\ UNCHANGED <<cmd, force, nIds, permanent, confirm, requests, funcResult,
                   wOutcome, wResult, wExit, wExc, seen>>
    /\ UNCHANGED <<createVars, actionVars, pairVars>>

\* the delete call on the service: it returns, or raises
DeleteRequest ==
    /\ cpc = "delete"
    /\ requests' = Append(requests, DeleteRequestOf(cmd, nIds, permanent))
    /\ \/ /\ cpc' = "success"
          /\ UNCHANGED raisedIn
       \/ \E e \in ServiceRaisable :
             /\ raisedIn' = e
             /\ cpc' = "handler"
    /\ UNCHANGED <<cmd, force, nIds, permanent, confirm, clientBuilt, printed,
                   funcResult, wOutcome, wResult, wExit, wExc, seen>>
    /\ UNCHANGED <<createVars, actionVars, pairVars>>

\* success(...); the command returns None
Success ==
    /\ cpc = "success"
    /\ printed' = Append(printed, SuccessMessage(cmd))
    /\ funcResult' = None
    /\ cpc' = "handler"
    /\ UNCHANGED <<cmd, force, nIds, permanent, confirm, clientBuilt, requests,
                   raisedIn, wOutcome, wResult, wExit, wExc, seen>>
    /\ UNCHANGED <<createVars, actionVars, pairVars>>

\* func(*args, **kwargs) of any wrapped function: it returns a value or raises
FuncRuns ==
    /\ cpc = "func"
    /\ \/ \E v \in FuncResults :
             /\ funcResult' = v
             /\ UNCHANGED raisedIn
       \/ \E e \in FuncRaisable :
             /\ raisedIn' = e
             /\ UNCHANGED funcResult
    /\ cpc' = "handler"
    /\ UNCHANGED <<cmd, force, nIds, permanent, confirm, clientBuilt, requests,
                   printed, wOutcome, wResult, wExit, wExc, seen>>
    /\ UNCHANGED <<createVars, actionVars, pairVars>>

\* wrapper: return func(...), or one of the except clauses, or no clause
Handle ==
    /\ cpc = "handler"
    /\ IF raisedIn = NoExc
         THEN /\ wOutcome' = "returned"
              /\ wResult' = funcResult
              /\ UNCHANGED <<printed, wExit, wExc, seen>>
         ELSE IF Caught(raisedIn)
           THEN /\ printed' = Append(printed, ErrorMessage(raisedIn))
                /\ wOutcome' = "exit"
                /\ wExit' = 1
                /\ seen' = seen \cup {[exc |-> raisedIn, exit |-> 1,
                                      prefix |-> ErrorMessage(raisedIn).prefix]}
                /\ UNCHANGED <<wResult, wExc>>
           ELSE /\ wOutcome' = "propagated"
                /\ wExc' = raisedIn
                /\ seen' = seen \cup {[exc |-> raisedIn, exit |-> -1,
                                      prefix |-> None]}
                /\ UNCHANGED <<printed, wResult, wExit>>
    /\ cpc' = "done"
    /\ UNCHANGED <<cmd, force, nIds, permanent, confirm, clientBuilt, requests,
                   raisedIn, funcResult>>
    /\ UNCHANGED <<createVars, actionVars, pairVars>>

\* the command has ended; the next command is invoked from the shell
NextInvocation ==
    /\ cpc = "done"
    /\ cmd' \in Commands
    /\ cpc' = IF cmd' = "func" THEN "func" ELSE "confirm"
    /\ force' \in BOOLEAN
    /\ nIds' \in IF cmd' \in {"volumes", "ssh-keys"} THEN 1..MaxIdList ELSE {1}
    /\ permanent' \in IF cmd' = "volumes" THEN BOOLEAN ELSE {FALSE}
    /\ confirm' = "unasked"
    /\ clientBuilt' = FALSE
    /\ requests' = <<>>
    /\ printed' = <<>>
    /\ raisedIn' = NoExc
    /\ funcResult' = "unset"
    /\ wOutcome' = "running"
    /\ wResult' = "unset"
    /\ wExit' = -1
    /\ wExc' = NoExc
    /\ UNCHANGED seen
    /\ UNCHANGED <<createVars, actionVars, pairVars>>

NextCli == Confirm \/ GetClient \/ DeleteRequest \/ Success \/ FuncRuns
            \/ Handle \/ NextInvocation

SpecCli == InitCli /\ [][NextCli]_vars

\* ------------------------------------------- concurrent calls of create
\* two threads call create on one ClustersService, each with its arguments
InitPair ==
    /\ CreateIdle
    /\ ActionIdle
    /\ CliIdle
    /\ gclock = 0
    /\ ws \in [Waiters -> {WStart(p) : p \in PairPolicies}]
    /\ wlog = [w \in Waiters |-> <<>>]

\* thread w takes the step of create that consumes ev
Takes(w, ev) ==
    /\ ws' = [ws EXCEPT ![w] = WStep(ws[w], ev)]
    /\ wlog' = [wlog EXCEPT ![w] = Append(@, ev)]
    /\ UNCHANGED gclock
    /\ UNCHANGED <<createVars, actionVars, cliVars>>

\* thread w: the creation request returns or fails
PairPost(w) ==
    /\ ws[w].pc = "start"
    /\ \E ok \in BOOLEAN : Takes(w, Event("post", ok, PairId(w), None, gclock))

\* thread w: the single fetch of a call without a wait
PairGetOnce(w) ==
    /\ ws[w].pc = "get_once"
    /\ \E ok \in BOOLEAN, st \in PairStatuses :
          Takes(w, Event("get_once", ok, ws[w].id, st, gclock))

\* thread w: a fetch of the loop returns or fails
PairPoll(w) ==
    /\ ws[w].pc = "poll"
    /\ \E ok \in BOOLEAN, st \in PairStatuses :
          Takes(w, Event("poll", ok, ws[w].id, st, gclock))

\* variant: the loop counter is kept on the service object the threads share
PairSleepSharedCounter(w) ==
    /\ ws[w].pc = "sleep"
    /\ LET ev == Event("sleep", TRUE, ws[w].id, None, gclock) IN
         /\ ws' = [v \in Waiters |->
                      IF v = w THEN WStep(ws[w], ev)
                      ELSE [ws[v] EXCEPT !.i = @ + 1]]
         /\ wlog' = [wlog EXCEPT ![w] = Append(@, ev)]
    /\ UNCHANGED gclock
    /\ UNCHANGED <<createVars, actionVars, cliVars>>

\* thread w: the interval is computed and time.sleep is entered
PairSleep(w) ==
    /\ ws[w].pc = "sleep"
    /\ Takes(w, Event("sleep", TRUE, ws[w].id, None, gclock))

\* thread w: time.sleep returns once the interval has passed
PairWake(w) ==
    /\ ws[w].pc = "sleeping"
    /\ gclock >= ws[w].wake
    /\ Takes(w, Event("wake", TRUE, ws[w].id, None, gclock))

\* the clock reading at which thread w entered its present position
Since(w) == IF wlog[w] = <<>> THEN 0 ELSE wlog[w][Len(wlog[w])].t

\* time passes while requests are under way (each for at most MaxLatency) or
\* threads sleep (each until its interval has passed); the statements
\* between a fetch and the sleep that follows it take no time
Tick ==
    /\ \E w \in Waiters : ws[w].pc \notin {"done", "idle"}
    /\ \A w \in Waiters :
          /\ ws[w].pc # "sleep"
          /\ ws[w].pc \in {"start", "get_once", "poll"} => gclock - Since(w) < MaxLatency
          /\ ws[w].pc = "sleeping" => gclock < ws[w].wake
    /\ gclock' = gclock + 1
    /\ UNCHANGED <<ws, wlog>>
    /\ UNCHANGED <<createVars, actionVars, cliVars>>

NextPair ==
    \/ Tick
    \/ \E w \in Waiters :
          PairPost(w) \/ PairGetOnce(w) \/ PairPoll(w) \/ PairSleep(w) \/ PairWake(w)

SpecPair == InitPair /\ [][NextPair]_vars

TypeOK ==
    /\ cfg \in Policies
    /\ pc \in {"start", "get_once", "poll", "sleep", "done"}
    /\ ActionIdle
    /\ CliIdle
    /\ PairIdle
    /\ clock \in Nat /\ deadline \in Nat /\ i \in Nat /\ now \in Nat
    /\ id \in Ids \cup {None}
    /\ outcome \in {"running", "returned", "raised"}
    /\ (pc = "done") = (outcome # "running")
    /\ posts \in 0..1 /\ fetches \in Nat
    /\ fetchIds \subseteq Ids
    /\ sawStarted \in BOOLEAN
    /\ priorOrdered \in BOOLEAN

\* ---------------------------------------------------------------- claims
\* a wait was requested (wait_for_status is neither None nor empty)
IsWait == cfg.wait_for_status \notin {None, ""}

\* the creation request succeeded
Posted == id # None

\* the last get_by_id call returned a snapshot
Fetched == cluster # NoCluster /\ exc # TransportError

Elapsed == clock - waitStart

Terminal == {ERROR, DISCONTINUED}

Last(seq) == seq[Len(seq)]

C2_ImmediateSuccess ==
    (IsWait /\ fetches = 1 /\ Fetched /\ cluster.status = cfg.wait_for_status) =>
        /\ pc = "done"
        /\ outcome = "returned"
        /\ result = cluster
        /\ slept = <<>>

C2_Witness ==
    /\ IsWait /\ fetches = 1 /\ Fetched
    /\ cluster.status = cfg.wait_for_status
    /\ outcome = "returned"

\* C3 as stated: a fetched status error or discontinued always ends the wait
\* with the terminal-state error.
C3_TerminalAlwaysRaises ==
    (IsWait /\ Fetched /\ cluster.status \in Terminal) =>
        /\ pc = "done"
        /\ exc = TerminalError(id, cluster.status)

\* C3 amended: a fetched status error or discontinued that is not the
\* requested target ends the wait at once with the terminal-state error: no
\* interval is computed or slept after it and no further fetch is made; the
\* interval computation is never reached with a terminal status.
C3_TerminalShortCircuits ==
    /\ (IsWait /\ Fetched /\ cluster.status \in Terminal
            /\ cluster.status # cfg.wait_for_status) =>
          /\ pc = "done"
          /\ outcome = "raised"
          /\ exc = TerminalError(id, cluster.status)
          /\ Len(slept) = fetches - 1
          /\ Len(geos) = fetches - 1
    /\ pc = "sleep" => cluster.status \notin Terminal

C3_Witness ==
    /\ IsWait /\ Fetched
    /\ cluster.status = ERROR
    /\ cfg.wait_for_status # ERROR
    /\ fetches = 3
    /\ exc = TerminalError(id, ERROR)

\* C4: when the geometric interval exceeds the time left before the
\* deadline the duration slept is the time left, and every sleep ends at or
\* before wait start + max_wait_time.
C4_SleepClamped ==
    slept # <<>> =>
        /\ Last(geos) > remaining => Last(slept) = remaining
        /\ Last(slept) <= remaining
        /\ pc = "poll" => clock <= waitStart + cfg.max_wait_time

C4_Witness ==
    /\ slept # <<>>
    /\ pc = "poll"
    /\ Last(geos) > remaining
    /\ Last(slept) = remaining
    /\ clock = waitStart + cfg.max_wait_time

\* the sequence 1, 2, 4, 8, 10, 10, 10, ...
BackoffTable(k) == IF k = 0 THEN 1 ELSE IF k = 1 THEN 2 ELSE IF k = 2 THEN 4
                   ELSE IF k = 3 THEN 8 ELSE 10

\* C5: with initial_interval=1, backoff_coefficient=2, max_interval=10 the
\* interval computed before deadline clamping for the sleep that follows k
\* earlier sleeps is 1, 2, 4, 8, 10, 10, ...
C5_BackoffSequence ==
    (cfg.initial_interval = 1 /\ cfg.backoff_coefficient = 2
        /\ cfg.max_interval = 10) =>
        /\ Len(geos) = Len(slept)
        /\ \A k \in 1..Len(geos) : geos[k] = BackoffTable(k - 1)

C5_Witness ==
    /\ cfg.initial_interval = 1 /\ cfg.backoff_coefficient = 2
    /\ cfg.max_interval = 10
    /\ Len(geos) = 6
    /\ geos = <<1, 2, 4, 8, 10, 10>>

\* C6: a TimeoutError is always preceded by a fetch; with max_wait_time = 0
\* the wait makes exactly one fetch, never sleeps, and the fetched status
\* decides between return, terminal error and TimeoutError.
C6_FetchBeforeTimeout ==
    /\ exc.type = "TimeoutError" => fetches >= 1 /\ Fetched
    /\ (IsWait /\ Posted /\ cfg.max_wait_time = 0) =>
          /\ pc \in {"poll", "done"}
          /\ slept = <<>>
          /\ pc = "poll" => fetches = 0
          /\ pc = "done" =>
                /\ fetches = 1
                /\ \/ exc = TransportError
                   \/ /\ cluster.status = cfg.wait_for_status
                      /\ outcome = "returned"
                   \/ /\ cluster.status # cfg.wait_for_status
                      /\ cluster.status \in Terminal
                      /\ exc = TerminalError(id, cluster.status)
                   \/ /\ cluster.status # cfg.wait_for_status
                      /\ cluster.status \notin Terminal
                      /\ exc.type = "TimeoutError"

C6_Witness ==
    /\ IsWait /\ cfg.max_wait_time = 0
    /\ exc.type = "TimeoutError"
    /\ fetches = 1

\* what the wait did with the last fetched status
TreatedReached == outcome = "returned"
TreatedTerminal == exc.type = "APIException" /\ exc.code = SERVER_ERROR
TreatedConverging ==
    pc \in {"sleep", "poll"} \/ exc.type \in {"TimeoutError", "OverflowError"}

\* C7 as stated: the three classes (status equals the target; status is
\* error or discontinued; anything else) are disjoint, and the wait treats
\* the fetched status as the one class it is in.
C7_ClassesDisjoint ==
    (IsWait /\ Fetched) =>
        /\ TreatedReached <=> cluster.status = cfg.wait_for_status
        /\ TreatedTerminal <=> cluster.status \in Terminal
        /\ TreatedConverging <=>
              (cluster.status # cfg.wait_for_status /\ cluster.status \notin Terminal)

\* C7 amended: taking the classes in the order the code tests them (target
\* first, then terminal failure, then still converging), every fetched
\* status is treated as exactly one class; a status that is neither the
\* target nor a named status is still converging and never a success.
C7_ClassesByOrder ==
    (IsWait /\ Fetched) =>
        /\ TreatedReached <=> cluster.status = cfg.wait_for_status
        /\ TreatedTerminal <=>
              (cluster.status # cfg.wait_for_status /\ cluster.status \in Terminal)
        /\ TreatedConverging <=>
              (cluster.status # cfg.wait_for_status /\ cluster.status \notin Terminal)
        /\ Cardinality({c \in {"reached", "terminal", "converging"} :
              \/ c = "reached" /\ TreatedReached
              \/ c = "terminal" /\ TreatedTerminal
              \/ c = "converging" /\ TreatedConverging}) = 1
        /\ cluster.status \notin
              {ORDERED, PROVISIONING, RUNNING, ERROR, DISCONTINUED, cfg.wait_for_status}
              => TreatedConverging

C7_Witness ==
    /\ IsWait /\ Fetched
    /\ cfg.wait_for_status = ERROR
    /\ cluster.status = ERROR
    /\ TreatedReached
    /\ fetches = 2

\* C8: no run in which a fetch begun before the deadline showed the cluster
\* provisioning or running ends in TimeoutError (default target).
C8_NoTimeoutOnceStarted ==
    (cfg.wait_for_status = PROVISIONING /\ exc.type = "TimeoutError") => ~sawStarted

\* C9: with the default arguments and a first fetch reporting running,
\* create returns that cluster after one creation request and one fetch.
C9_DefaultReturnsRunning ==
    (cfg = DefaultPolicy /\ fetches = 1 /\ Fetched /\ cluster.status = RUNNING) =>
        /\ pc = "done"
        /\ outcome = "returned"
        /\ result = cluster
        /\ posts = 1

\* C10: with wait_for_status None, once the creation request succeeded
\* create fetches once by the assigned id and returns that snapshot whatever
\* its status, without sleeping and without timeout or terminal-state error.
C10_NoWait ==
    (cfg.wait_for_status = None /\ Posted) =>
        /\ pc \in {"get_once", "done"}
        /\ slept = <<>>
        /\ exc.type # "TimeoutError"
        /\ ~TreatedTerminal
        /\ pc = "done" =>
              /\ posts = 1
              /\ fetches = 1
              /\ fetchIds = {id}
              /\ exc = TransportError \/ (outcome = "returned" /\ result = cluster
                                          /\ result.id = id)

C10_Witness ==
    /\ cfg.wait_for_status = None
    /\ outcome = "returned"
    /\ result = Snapshot(id, DISCONTINUED)
    /\ fetches = 1

C12_ThreeOutcomes ==
    (IsWait /\ Posted /\ pc = "done" /\ exc # TransportError) =>
        \/ outcome = "returned"
        \/ TreatedTerminal
        \/ exc.type = "TimeoutError"

\* C13: once the wait has returned a snapshot, raised the terminal-state
\* error or declared timeout, no further fetch is made and no further sleep
\* is performed, and the outcome stands.
C13_OutcomesAreFinal ==
    [][(outcome = "returned" \/ TreatedTerminal \/ exc.type = "TimeoutError") =>
          (fetches' = fetches /\ slept' = slept /\ outcome' = outcome
           /\ exc' = exc /\ result' = result)]_vars

C13_Witness ==
    /\ IsWait
    /\ exc.type = "TimeoutError"
    /\ fetches >= 2
    /\ pc = "done"

\* the externally observed lifecycle state of the wait
Life ==
    IF ~(IsWait /\ Posted) THEN "NoWait"
    ELSE IF outcome = "returned" THEN "Reached"
    ELSE IF TreatedTerminal THEN "TerminalFailure"
    ELSE IF exc.type = "TimeoutError" THEN "TimedOut"
    ELSE IF outcome = "raised" THEN "Aborted"
    ELSE IF fetches = 0 THEN "Submitted"
    ELSE "Converging"

LifeStates == {"Submitted", "Converging", "Reached", "TerminalFailure", "TimedOut"}

ListedTransitions ==
    {<<"Submitted", "Converging">>, <<"Converging", "Converging">>,
     <<"Converging", "Reached">>, <<"Converging", "TerminalFailure">>,
     <<"Converging", "TimedOut">>}

\* C14 as stated: between the five lifecycle states only the listed
\* transitions occur.
C14_ListedTransitionsOnly ==
    [][(Life \in LifeStates /\ Life' \in LifeStates) =>
          <<Life, Life'>> \in ListedTransitions]_vars

\* C14 amended: between the five lifecycle states only the listed
\* transitions and Submitted to Reached, Submitted to TerminalFailure and
\* Submitted to TimedOut (decided by the first fetch) occur; the wait is
\* Converging only after a fetch whose status is neither the target nor a
\* terminal failure.
C14_LifecycleTransitions ==
    [][(Life \in LifeStates /\ Life' \in LifeStates) =>
          /\ <<Life, Life'>> \in ListedTransitions \cup
                {<<"Submitted", "Reached">>, <<"Submitted", "TerminalFailure">>,
                 <<"Submitted", "TimedOut">>}
          /\ Life' = "Converging" =>
                /\ cluster'.status # cfg.wait_for_status
                /\ cluster'.status \notin Terminal]_vars

C14_Witness ==
    /\ Life = "Reached"
    /\ fetches = 1
    /\ slept = <<>>

\* C15: an API error of the creation request or of a fetch ends create at
\* once with that error: the creation request was sent once, a failed
\* creation is followed by no fetch, a failed fetch by no further fetch or
\* sleep, and nothing is returned.
C15_RequestErrorPropagates ==
    exc = TransportError =>
        /\ pc = "done"
        /\ outcome = "raised"
        /\ result = NoCluster
        /\ posts = 1
        /\ ~Posted => (fetches = 0 /\ slept = <<>>)
        /\ Posted => (fetches = Len(slept) + 1 /\ fetchIds = {id})

C15_Witness ==
    /\ exc = TransportError
    /\ IsWait
    /\ fetches = 3
    /\ Len(slept) = 2

\* the wait ended on a fetched terminal-failure status
EndedTerminal ==
    /\ IsWait /\ Fetched /\ outcome = "raised"
    /\ cluster.status \in Terminal
    /\ cluster.status # cfg.wait_for_status

\* C16 as stated: the error of a terminal failure differs in kind from
\* TimeoutError and from the error of a failed request.
C16_ThreeKinds ==
    EndedTerminal =>
        /\ exc.type # "TimeoutError"
        /\ exc.type # TransportError.type

\* C16 amended: a timeout is raised as TimeoutError and a terminal failure
\* as APIException, so the two differ in kind; a terminal failure has the
\* same kind, APIException, as a failed request.
C16_TimeoutKindOnly ==
    /\ EndedTerminal =>
          /\ exc.type = "APIException"
          /\ exc.type = TransportError.type
          /\ exc.code = SERVER_ERROR
          /\ exc.ref = id
    /\ (outcome = "raised" /\ IsWait /\ Fetched /\ ~EndedTerminal) =>
          exc.type \in {"TimeoutError", "OverflowError"}
    /\ exc.type = "TimeoutError" => (exc.ref = id /\ exc.wait = cfg.max_wait_time)

C16_Witness ==
    /\ EndedTerminal
    /\ cluster.status = DISCONTINUED
    /\ exc.type = "APIException"
    /\ fetches = 2

\* C19: the slept intervals never decrease, except that the last one may be
\* shorter when it was cut to the time left before the deadline; every sleep
\* before the last has the geometric length, and those never decrease.
C19_SleptNonDecreasing ==
    \A k \in 1..(Len(slept) - 1) :
        /\ geos[k] <= geos[k + 1]
        /\ slept[k] = geos[k]
        /\ \/ slept[k] <= slept[k + 1]
           \/ /\ k + 1 = Len(slept)
              /\ slept[k + 1] = remaining
              /\ remaining < geos[k + 1]

C19_Witness ==
    /\ Len(slept) = 6
    /\ slept[1] < slept[2]
    /\ slept[4] < slept[5]
    /\ slept[6] < slept[5]

\* C20: every fetch made by create, in the no-wait path and on every poll,
\* uses the identifier the creation request returned and no other.
C20_SoleKey ==
    /\ fetchIds \subseteq {id}
    /\ fetches > 0 => (Posted /\ fetchIds = {id})
    /\ Fetched => cluster.id = id
    /\ outcome = "returned" => result.id = id

C20_Witness ==
    /\ id = "c2"
    /\ fetches = 3
    /\ fetchIds = {"c2"}

\* C17: action called with a token other than delete raises ValueError and
\* sends no HTTP request, for a single identifier as for a list; a
\* ValueError is raised for no other reason and before any request.
C17_ValidationFailsFast ==
    /\ (aop = "action" /\ argAction # DELETE) =>
          /\ apc \in {"check", "done"}
          /\ http = <<>>
          /\ apc = "done" => (aOutcome = "raised" /\ aExc = ValueErr(argAction))
    /\ aExc.type = "ValueError" =>
          (argAction # DELETE /\ http = <<>> /\ apc = "done")

C17_Witness ==
    /\ aop = "action"
    /\ argAction = "discontinue"
    /\ ~id_list.str
    /\ Len(id_list.ids) = 2
    /\ aExc = ValueErr("discontinue")
    /\ http = <<>>

\* C18: delete(id) sends exactly one mutating request (the PUT that
\* discontinues that cluster), makes no fetch and no sleep, returns None when
\* the request succeeds and raises the API error of that one request when
\* it fails.
C18_DeleteFireAndForget ==
    aop = "delete" =>
        /\ Len(http) <= 1
        /\ fetches = 0
        /\ slept = <<>>
        /\ apc = "done" =>
              /\ http = <<PutRequest(<<[id |-> id_list.ids[1],
                                        action |-> "discontinue"]>>)>>
              /\ \/ aOutcome = "returned" /\ aResult = None /\ aExc = NoExc
                 \/ aOutcome = "raised" /\ aExc = TransportError
        /\ apc # "done" => (http = <<>> /\ aOutcome = "running")

C18_Witness ==
    /\ aop = "delete"
    /\ apc = "done"
    /\ Len(http) = 1
    /\ aOutcome = "returned"
    /\ aResult = None

\* C27: one create call sends the creation request exactly once, and before
\* the first fetch, whatever the number of polls and whatever the outcome:
\* no fetch or sleep is made without it and no later step sends it again.
C27_PostExactlyOnce ==
    /\ posts <= 1
    /\ pc \in {"get_once", "poll", "sleep", "done"} => posts = 1
    /\ (fetches > 0 \/ slept # <<>>) => (posts = 1 /\ Posted)
    /\ posts = 0 => (fetches = 0 /\ fetchIds = {})

C27_Witness ==
    /\ pc = "done"
    /\ exc.type = "TimeoutError"
    /\ fetches >= 3
    /\ posts = 1

FetchedLate == Fetched /\ clock - lastLat >= deadline

\* C29: in each poll the tests run in the order target, terminal failure,
\* deadline. A wait that ended after a fetch showing the target returned, also
\* when that fetch was begun at or after the deadline; one that ended after a
\* fetch showing error or discontinued (not the target) raised the
\* terminal-state error, never TimeoutError; TimeoutError is raised only right
\* after a fetch of a non-target, non-terminal status at a time >= deadline.
C29_CheckOrder ==
    /\ (IsWait /\ pc = "done" /\ Fetched /\ cluster.status = cfg.wait_for_status)
          => (outcome = "returned" /\ result = cluster)
    /\ (IsWait /\ pc = "done" /\ Fetched /\ cluster.status \in Terminal
          /\ cluster.status # cfg.wait_for_status)
          => exc = TerminalError(id, cluster.status)
    /\ exc.type = "TimeoutError" =>
          /\ Fetched
          /\ cluster.status \notin Terminal \cup {cfg.wait_for_status}
          /\ now = clock
          /\ now >= deadline
    /\ (IsWait /\ pc = "sleep") =>
          /\ cluster.status \notin Terminal \cup {cfg.wait_for_status}
          /\ now < deadline

C29_Witness ==
    /\ IsWait
    /\ outcome = "returned"
    /\ FetchedLate
    /\ slept # <<>>
    /\ Last(slept) < Last(geos)

\* the invariant of the wait policy
PolicyInvariant(p) ==
    /\ 0 < p.initial_interval
    /\ p.initial_interval <= p.max_interval
    /\ p.backoff_coefficient >= 1
    /\ p.max_wait_time > 0

\* C30: under the policy invariant every duration passed to sleep is strictly
\* positive and at most max_interval, and at every outcome of a wait the
\* number of fetches made is the number of sleeps performed plus one.
C30_SleepsPositiveAndCounted ==
    PolicyInvariant(cfg) =>
        /\ \A k \in 1..Len(slept) :
              slept[k] > 0 /\ slept[k] <= cfg.max_interval
        /\ (IsWait /\ Posted /\ pc = "done") => fetches = Len(slept) + 1

C30_Witness ==
    /\ PolicyInvariant(cfg)
    /\ IsWait
    /\ pc = "done"
    /\ Len(slept) >= 2
    /\ Last(slept) < cfg.max_interval
    /\ slept[1] = cfg.max_interval

\* the fetches of a wait under the scenario policy all returned, and all
\* before the last one showed ordered
ScenarioRun == cfg = ScenarioPolicy /\ Fetched /\ priorOrdered

\* C22: with initial_interval 1, max_interval 10, backoff_coefficient 2,
\* max_wait_time 30 and target running, fetches showing ordered, ordered,
\* running make exactly 3 fetches, with sleeps of 1 and then 2 between them,
\* and create returns the third snapshot; after the first and the second
\* fetch the wait is still going on.
C22_ScenarioReached ==
    /\ (ScenarioRun /\ fetches = 3 /\ cluster.status = RUNNING) =>
          /\ pc = "done"
          /\ outcome = "returned"
          /\ result = Snapshot(id, RUNNING)
          /\ result = cluster
          /\ slept = <<1, 2>>
    /\ (ScenarioRun /\ fetches \in {1, 2} /\ cluster.status = ORDERED) =>
          /\ outcome = "running"
          /\ pc \in {"sleep", "poll"}
          /\ slept = IF pc = "sleep" THEN SubSeq(<<1, 2>>, 1, fetches - 1)
                                     ELSE SubSeq(<<1, 2>>, 1, fetches)

C22_Witness ==
    /\ ScenarioRun
    /\ fetches = 3
    /\ cluster.status = RUNNING
    /\ outcome = "returned"
    /\ slept = <<1, 2>>

\* C23: with the same policy, fetches showing ordered, error make exactly 2
\* fetches and raise the terminal-state error, which carries the identifier
\* of the resource and names the error status; exactly one sleep was made,
\* before the second fetch, and none after the error was seen.
C23_ScenarioTerminal ==
    (ScenarioRun /\ fetches = 2 /\ cluster.status = ERROR) =>
        /\ pc = "done"
        /\ outcome = "raised"
        /\ exc.type = "APIException"
        /\ exc.code = SERVER_ERROR
        /\ exc.ref = id
        /\ exc.text = "entered error state"
        /\ slept = <<1>>
        /\ result = NoCluster

C23_Witness ==
    /\ ScenarioRun
    /\ fetches = 2
    /\ cluster.status = ERROR
    /\ outcome = "raised"
    /\ exc.ref = id
    /\ slept = <<1>>

\* the error kind of an exception
KindOf(e) ==
    CASE e.type = "APIException" /\ e.code = SERVER_ERROR /\ e.ref # None ->
           "TerminalStateError"
      [] e.type = "APIException" /\ ~(e.code = SERVER_ERROR /\ e.ref # None) ->
           "RequestError"
      [] e.type = "TimeoutError" -> "TimeoutError"
      [] e.type = "ValueError" -> "ValidationError"
      [] OTHER -> e.type

FourKinds == {"RequestError", "TerminalStateError", "TimeoutError", "ValidationError"}

\* C24 as stated: the CLI layer ends a command with a different exit code and
\* a different message for each of the four error kinds.
C24_DistinctExitCodes ==
    \A a \in seen, b \in seen :
        (KindOf(a.exc) \in FourKinds /\ KindOf(b.exc) \in FourKinds
           /\ KindOf(a.exc) # KindOf(b.exc))
        => (a.exit # b.exit /\ a.prefix # b.prefix)

\* C24: a request error and a terminal-state error both end the command with
\* exit code 1 and the message prefix API Error, a timeout ends it with the
\* same exit code 1 and the prefix Timeout, and a validation error is given
\* no exit code and no message: it leaves the wrapper uncaught.
C24_OneExitCode ==
    \A a \in seen :
        /\ KindOf(a.exc) \in {"RequestError", "TerminalStateError"} =>
              (a.exit = 1 /\ a.prefix = "API Error")
        /\ KindOf(a.exc) = "TimeoutError" => (a.exit = 1 /\ a.prefix = "Timeout")
        /\ KindOf(a.exc) = "ValidationError" => (a.exit = -1 /\ a.prefix = None)

C24_Witness == FourKinds \subseteq {KindOf(a.exc) : a \in seen}

\* number of messages printed through error()
ErrorsPrinted == Cardinality({k \in 1..Len(printed) : printed[k].channel = "error"})

\* C25: a wrapped command that raised APIException, TimeoutError or
\* ConnectionError ends with exactly one printed error message and exit code
\* 1; any other exception leaves the wrapper as it was raised, with nothing
\* printed by the wrapper; a command that raised nothing has its result
\* returned as it is.
C25_WrapperOutcomes ==
    /\ cpc \notin {"done", "idle"} => (wOutcome = "running" /\ ErrorsPrinted = 0)
    /\ cpc = "done" =>
          /\ raisedIn.type \in {"APIException", "TimeoutError", "ConnectionError"}
                => /\ wOutcome = "exit"
                   /\ wExit = 1
                   /\ ErrorsPrinted = 1
                   /\ Last(printed).channel = "error"
                   /\ wExc = NoExc
          /\ (raisedIn # NoExc /\ raisedIn.type \notin
                  {"APIException", "TimeoutError", "ConnectionError"})
                => /\ wOutcome = "propagated"
                   /\ wExc = raisedIn
                   /\ wExit = -1
                   /\ ErrorsPrinted = 0
          /\ raisedIn = NoExc
                => /\ wOutcome = "returned"
                   /\ wResult = funcResult
                   /\ wExit = -1
                   /\ wExc = NoExc
                   /\ ErrorsPrinted = 0

C25_Witness ==
    /\ cmd = "func"
    /\ cpc = "done"
    /\ wOutcome = "returned"
    /\ wResult = "value"
    /\ \E a \in seen : a.exc = ValueErr("boot") /\ a.exit = -1
    /\ \E b \in seen : b.exc = ConnectionErr /\ b.exit = 1

\* a success message has been printed
SuccessPrinted == \E k \in 1..Len(printed) : printed[k].channel = "success"

\* C26: in every delete command, when --force is not given and the user
\* declines, the command aborts with no client built and no delete call made;
\* a delete call is made only after --force or a yes, once, on the service of
\* the command; the success message is printed only after that call returned
\* without an error.
C26_DeleteNeedsConsent ==
    cmd \in DeleteCommands =>
        /\ force => confirm = "unasked"
        /\ (~force /\ confirm = "no") =>
              /\ ~clientBuilt
              /\ requests = <<>>
              /\ ~SuccessPrinted
              /\ raisedIn = AbortExc
              /\ cpc = "done" => (wOutcome = "propagated" /\ wExc = AbortExc)
        /\ requests # <<>> =>
              /\ force \/ confirm = "yes"
              /\ clientBuilt
              /\ Len(requests) = 1
              /\ requests[1].service = (IF cmd = "ssh-keys" THEN "ssh_keys" ELSE cmd)
        /\ SuccessPrinted =>
              /\ Len(requests) = 1
              /\ raisedIn = NoExc
              /\ Last(printed) = SuccessMessage(cmd)
              /\ cpc \in {"handler", "done"}

C26_Witness ==
    /\ cmd \in DeleteCommands
    /\ ~force
    /\ confirm = "no"
    /\ cpc = "done"
    /\ wExc = AbortExc
    /\ requests = <<>>
    /\ \E a \in seen : a.exc = TransportError

\* thread w has run concurrently with the other: each began before the
\* other ended
Overlapped ==
    /\ \A w \in Waiters : wlog[w] # <<>>
    /\ wlog[1][1].t < Last(wlog[2]).t
    /\ wlog[2][1].t < Last(wlog[1]).t

====
